---- MODULE Spec2Model ----
(***************************************************************************)
(* Attendance service (src/app.py): a Flask application that records QR    *)
(* scans in a Google spreadsheet, one worksheet per calendar day.          *)
(*                                                                         *)
(* Strings are sequences of character codes (ASCII), so that upper(),      *)
(* split(), replace(), strftime() and the string comparison of sort_values *)
(* are computed and not assumed.  The remote spreadsheet keeps the cells   *)
(* it is given verbatim.  Each request is one thread of the server; every  *)
(* remote call of a request is one step, so requests interleave between    *)
(* their remote calls.                                                     *)
(***************************************************************************)
EXTENDS Integers, Sequences, FiniteSets, TLC

\* ------------------------------------------------------------------ bounds
NReq == 2          \* requests handled in one behaviour
MaxEvents == 1     \* clock advances and failed remote calls in one behaviour
MaxLen == 4        \* characters of a payload, where every payload is tried

\* --------------------------------------------------------------- constants
Underscore == 95   \* '_'
Dash == 45         \* '-'
Space == 32        \* ' '
Colon == 58        \* ':'
HeadRows == 10     \* .head(10)
SecondsPerDay == 86400

Requests == 1..NReq

\* ----------------------------------------------------------------- strings
Min(a, b) == IF a <= b THEN a ELSE b
Max(a, b) == IF a >= b THEN a ELSE b

\* str.upper() on one character: only a..z change
UpperChar(c) == IF c >= 97 /\ c <= 122 THEN c - 32 ELSE c
upper(s) == [i \in 1..Len(s) |-> UpperChar(s[i])]

\* str.replace(a, b) for single characters
replace(s, a, b) == [i \in 1..Len(s) |-> IF s[i] = a THEN b ELSE s[i]]

\* c in s
Contains(s, c) == \E i \in 1..Len(s) : s[i] = c

\* s.rsplit(c, 1), for s that contains c: the parts around the last c
rsplit1(s, c) ==
    LET i == CHOOSE k \in 1..Len(s) : s[k] = c /\ \A j \in (k+1)..Len(s) : s[j] # c
    IN  <<SubSeq(s, 1, i-1), SubSeq(s, i+1, Len(s))>>

\* s.split(c, 1), for s that contains c: the parts around the first c
split1(s, c) ==
    LET i == CHOOSE k \in 1..Len(s) : s[k] = c /\ \A j \in 1..(k-1) : s[j] # c
    IN  <<SubSeq(s, 1, i-1), SubSeq(s, i+1, Len(s))>>

\* a < b as Python compares str: by code point, a proper prefix is smaller
StrLess(a, b) ==
    \E i \in 1..Len(b) :
        /\ \A j \in 1..(i-1) : j <= Len(a) /\ a[j] = b[j]
        /\ (i > Len(a) \/ a[i] < b[i])

\* ------------------------------------------------------------------- clock
TwoDigits(n) == <<48 + (n \div 10), 48 + (n % 10)>>

\* strftime("%H:%M:%S") of a second of the day
strftime_HMS(sec) ==
    TwoDigits(sec \div 3600) \o <<Colon>> \o TwoDigits((sec \div 60) % 60)
        \o <<Colon>> \o TwoDigits(sec % 60)

\* The name of the worksheet of a day: the weekday name and the date.
get_weekly_worksheet_name(now) == <<now.day % 7, now.day>>

\* ------------------------------------------------------------- spreadsheet
columns == << <<75,111,100,101>>, <<78,97,109,97>>, <<87,97,107,116,117>> >>

\* "Gagal Koneksi GSheets", "Format QR Tidak Valid"
NamaGagalKoneksi ==
    <<71,97,103,97,108,32,75,111,110,101,107,115,105,32,71,83,104,101,101,116,115>>
NamaFormatTidakValid ==
    <<70,111,114,109,97,116,32,81,82,32,84,105,100,97,107,32,86,97,108,105,100>>

\* One row of the DataFrame / one row of cells of a worksheet
Record(kode, nama, waktu) == [Kode |-> kode, Nama |-> nama, Waktu |-> waktu]
CellsOf(rec) == <<rec.Kode, rec.Nama, rec.Waktu>>
RecordOf(cells) == Record(cells[1], cells[2], cells[3])

\* pd.DataFrame(data[1:], columns=data[0]), or the empty frame when the
\* worksheet holds at most one row
DataFrameOf(data) ==
    IF Len(data) <= 1 THEN <<>>
    ELSE [i \in 1..(Len(data) - 1) |-> RecordOf(data[i + 1])]

\* The last row of the DataFrame added below the rows already there: what an
\* append in place of the rewrite would do.
set_with_dataframe_append(cells, df) == Append(cells, CellsOf(df[Len(df)]))

\* set_with_dataframe(ws, df, include_index=False, row=1, col=1): the header
\* and the rows are written from cell A1 on; resize is left at its default,
\* so rows of the worksheet below the written range keep their contents.
set_with_dataframe(cells, df) ==
    LET written == <<columns>> \o [i \in 1..Len(df) |-> CellsOf(df[i])]
    IN  [i \in 1..Max(Len(cells), Len(written)) |->
            IF i <= Len(written) THEN written[i] ELSE cells[i]]

\* df['Kode'].values
KodeValues(df) == {df[i].Kode : i \in 1..Len(df)}

\* df['Waktu'].iloc[0]: the time of the first row, the filter on the code
\* forgotten
FirstWaktu_unfiltered(df, kode) == df[1].Waktu

\* df[df['Kode'] == kode]['Waktu'].iloc[0]
FirstWaktu(df, kode) ==
    LET i == CHOOSE k \in 1..Len(df) :
                 df[k].Kode = kode /\ \A j \in 1..(k-1) : df[j].Kode # kode
    IN  df[i].Waktu

\* sort_values(by='Waktu'): ascending, as it is without ascending=False
RECURSIVE sort_values_asc(_)
sort_values_asc(df) ==
    IF df = <<>> THEN <<>>
    ELSE LET n == Len(df)
             x == df[n]
             t == sort_values_asc(SubSeq(df, 1, n - 1))
             k == Cardinality({i \in 1..(n-1) : ~StrLess(x.Waktu, t[i].Waktu)})
         IN  SubSeq(t, 1, k) \o <<x>> \o SubSeq(t, k + 1, n - 1)

\* sort_values(by='Waktu', ascending=False): rows with equal Waktu keep
\* their order
RECURSIVE sort_values_desc(_)
sort_values_desc(df) ==
    IF df = <<>> THEN <<>>
    ELSE LET n == Len(df)
             x == df[n]
             t == sort_values_desc(SubSeq(df, 1, n - 1))
             k == Cardinality({i \in 1..(n-1) : ~StrLess(t[i].Waktu, x.Waktu)})
         IN  SubSeq(t, 1, k) \o <<x>> \o SubSeq(t, k + 1, n - 1)

\* .head(10)[['Nama', 'Waktu']].to_dict('records')
head(df) == SubSeq(df, 1, Min(HeadRows, Len(df)))
Project(df) == [i \in 1..Len(df) |-> [Nama |-> df[i].Nama, Waktu |-> df[i].Waktu]]
RecentAttendance(df) == Project(head(sort_values_desc(df)))

\* ---------------------------------------------------------------- requests
\* Payloads of POST /scan: "a1_b-c_d", "b2_y", "nosep" and the missing or
\* empty payload.
QrInputs ==
    { <<97,49,95,98,45,99,95,100>>, <<98,50,95,121>>, <<110,111,115,101,112>>, <<>> }

\* The values of the GSPREAD_CREDENTIALS environment variable
CredentialBlobs == {"absent", "malformed", "valid"}

\* get_gspread_client(): None unless the credentials are present and load
get_gspread_client(creds) == IF creds = "valid" THEN "gc" ELSE "None"

\* Worksheet contents a day can start from: rows appended by earlier scans
EarlierRow(i) ==
    CellsOf(Record(<<83, 47 + i>>, <<78, 47 + i>>, strftime_HMS(28800 + ((3 * i) % 4))))
InitialData ==
    { <<columns, CellsOf(Record(<<66,50>>, <<90>>, strftime_HMS(28800)))>>,
      <<columns>> \o [i \in 1..HeadRows |-> EarlierRow(i)] }

NoSheets == [n \in {} |-> <<>>]
StartClock == [day |-> 0, sec |-> SecondsPerDay - 1]

NoResult ==
    [keys |-> {}, nama |-> <<>>, kode |-> <<>>, status |-> "", waktu |-> <<>>,
     recent_attendance |-> <<>>]

IdleRequest ==
    [kind |-> "none", qr_data |-> <<>>, pc |-> "idle", name |-> <<0, 0>>,
     sh |-> "", df |-> <<>>, result |-> NoResult, http |-> 0,
     saved |-> "none", saved_name |-> <<0, 0>>, calls |-> 0]

VARIABLES
    GSHEET_CLIENT,  \* the client made once at start-up, or "None"
    spreadsheet,    \* whether the spreadsheet titled SHEET_TITLE exists
    sheets,         \* worksheet name -> its rows of cells
    now,            \* the server clock: day and second of the day
    req,            \* the requests and where each one stands
    ticks,          \* clock advances so far
    faults          \* failed remote calls so far

vars == <<GSHEET_CLIENT, spreadsheet, sheets, now, req, ticks, faults>>

Init ==
    /\ \E creds \in CredentialBlobs : GSHEET_CLIENT = get_gspread_client(creds)
    /\ spreadsheet \in BOOLEAN
    /\ now = StartClock
    /\ \/ sheets = NoSheets /\ (GSHEET_CLIENT = "None" => spreadsheet)
       \/ /\ spreadsheet /\ GSHEET_CLIENT = "gc"
          /\ \E data \in InitialData :
                 sheets = (get_weekly_worksheet_name(now) :> data)
    /\ req = [r \in Requests |-> IdleRequest]
    /\ ticks = 0
    /\ faults = 0

\* A remote call either fails with an API error or goes through.
Remote(fail) ==
    /\ fail => ticks + faults < MaxEvents
    /\ faults' = IF fail THEN faults + 1 ELSE faults

\* isinstance(sh, str): the second value returned by the load is an error
\* text and not the spreadsheet
IsStr(sh) == sh # "Spreadsheet"

\* An exception that leaves the view function: Flask answers 500.
Unhandled(r) ==
    [req EXCEPT ![r].calls = @ + 1, ![r].pc = "done", ![r].http = 500,
                ![r].result = NoResult]

\* The server handles requests on two threads.
Threads == {1, 2}

\* Requests arrive in the order of their numbers, and a request is taken up
\* when a thread of the server is free.
InFlight == {q \in Requests : req[q].pc \notin {"idle", "done"}}
Arrives(r) ==
    /\ req[r].pc = "idle"
    /\ IF r = 1 THEN TRUE ELSE req[r - 1].pc # "idle"
    /\ Cardinality(InFlight) < Cardinality(Threads)

\* get_attendance_dataframe, lines 56-60: the name of today's worksheet and
\* the check of the client
BeginLoad(r, kind, qr_data) ==
    IF GSHEET_CLIENT = "None"
    THEN [req EXCEPT ![r].kind = kind, ![r].qr_data = qr_data,
                     ![r].name = get_weekly_worksheet_name(now),
                     ![r].df = <<>>, ![r].sh = "Gagal koneksi GSheets",
                     ![r].pc = "process"]
    ELSE [req EXCEPT ![r].kind = kind, ![r].qr_data = qr_data,
                     ![r].name = get_weekly_worksheet_name(now),
                     ![r].pc = "open"]

\* POST /scan
scan(r, qr_data) ==
    /\ Arrives(r)
    /\ req' = IF qr_data = <<>>
              THEN [req EXCEPT ![r].kind = "scan", ![r].pc = "done", ![r].http = 400,
                               ![r].result = [NoResult EXCEPT !.keys = {"error"}]]
              ELSE BeginLoad(r, "scan", qr_data)
    /\ UNCHANGED <<GSHEET_CLIENT, spreadsheet, sheets, now, ticks, faults>>

\* GET /
index(r) ==
    /\ Arrives(r)
    /\ req' = BeginLoad(r, "index", <<>>)
    /\ UNCHANGED <<GSHEET_CLIENT, spreadsheet, sheets, now, ticks, faults>>

\* The exceptions the handler around gc.open catches
CaughtAtOpen(exc) == exc = "WorksheetNotFound"

\* sh = gc.open(SHEET_TITLE)
gc_open(r) ==
    /\ req[r].pc = "open"
    /\ \E fail \in BOOLEAN :
         /\ Remote(fail)
         /\ LET exc == IF fail THEN "APIError"
                       ELSE IF ~spreadsheet THEN "SpreadsheetNotFound" ELSE "none"
                called == [req EXCEPT ![r].calls = @ + 1]
            IN  req' = IF exc = "none" THEN [called EXCEPT ![r].pc = "worksheet"]
                       ELSE IF CaughtAtOpen(exc)
                            THEN [called EXCEPT ![r].df = <<>>, ![r].sh = "Sheet Gagal",
                                                ![r].pc = "process"]
                            ELSE Unhandled(r)
    /\ UNCHANGED <<GSHEET_CLIENT, spreadsheet, sheets, now, ticks>>

\* ws = sh.worksheet(current_worksheet_name)
sh_worksheet(r) ==
    /\ req[r].pc = "worksheet"
    /\ \E fail \in BOOLEAN :
         /\ Remote(fail)
         /\ LET called == [req EXCEPT ![r].calls = @ + 1]
            IN  req' = IF fail THEN Unhandled(r)
                       ELSE IF req[r].name \in DOMAIN sheets
                            THEN [called EXCEPT ![r].pc = "get_all_values"]
                            ELSE [called EXCEPT ![r].pc = "add_worksheet"]
    /\ UNCHANGED <<GSHEET_CLIENT, spreadsheet, sheets, now, ticks>>

\* ws = sh.add_worksheet(title=current_worksheet_name, ...): the service
\* refuses a second worksheet of the same title
add_worksheet(r) ==
    /\ req[r].pc = "add_worksheet"
    /\ \E fail \in BOOLEAN :
         /\ Remote(fail)
         /\ IF fail \/ req[r].name \in DOMAIN sheets
            THEN /\ req' = Unhandled(r)
                 /\ UNCHANGED sheets
            ELSE /\ req' = [req EXCEPT ![r].calls = @ + 1, ![r].pc = "append_row"]
                 /\ sheets' = sheets @@ (req[r].name :> <<>>)
    /\ UNCHANGED <<GSHEET_CLIENT, spreadsheet, now, ticks>>

\* ws.append_row(columns), then the empty DataFrame is returned
append_row(r) ==
    /\ req[r].pc = "append_row"
    /\ \E fail \in BOOLEAN :
         /\ Remote(fail)
         /\ IF fail
            THEN /\ req' = Unhandled(r)
                 /\ UNCHANGED sheets
            ELSE /\ req' = [req EXCEPT ![r].calls = @ + 1, ![r].df = <<>>,
                                       ![r].sh = "Spreadsheet", ![r].pc = "process"]
                 /\ sheets' = [sheets EXCEPT ![req[r].name] = Append(@, columns)]
    /\ UNCHANGED <<GSHEET_CLIENT, spreadsheet, now, ticks>>

\* data = ws.get_all_values(), then the DataFrame of the rows is returned
get_all_values(r) ==
    /\ req[r].pc = "get_all_values"
    /\ \E fail \in BOOLEAN :
         /\ Remote(fail)
         /\ req' = IF fail THEN Unhandled(r)
                   ELSE [req EXCEPT ![r].calls = @ + 1,
                                    ![r].df = DataFrameOf(sheets[req[r].name]),
                                    ![r].sh = "Spreadsheet", ![r].pc = "process"]
    /\ UNCHANGED <<GSHEET_CLIENT, spreadsheet, sheets, now, ticks>>

\* '_' in qr_data
HasSeparator(qr_data) == Contains(qr_data, Underscore)

\* kode, nama_raw = qr_data.split('_', 1); the code and the name in capitals,
\* the dashes of the name turned into spaces
kode_upper(qr_data) == upper(split1(qr_data, Underscore)[1])
nama_lengkap(qr_data) == upper(replace(split1(qr_data, Underscore)[2], Dash, Space))

\* df_absensi.empty and not isinstance(sh, str): the test of the error text
\* turned round
IsConnectionError_not(df, sh) == df = <<>> /\ ~IsStr(sh)

\* df_absensi.empty and isinstance(sh, str)
IsConnectionError(df, sh) == df = <<>> /\ IsStr(sh)

\* The look-up of the code left out: every code counts as new
IsRegistered_never(df, kode) == FALSE

\* kode_upper in df_absensi['Kode'].values
IsRegistered(df, kode) == kode \in KodeValues(df)

\* The answer to a malformed payload with a 'kode' entry in it
InvalidFormatResult_kode(time_now_hms) ==
    [keys |-> {"nama", "kode", "status", "waktu"}, nama |-> NamaFormatTidakValid,
     kode |-> <<>>, status |-> "INVALID_FORMAT", waktu |-> time_now_hms,
     recent_attendance |-> <<>>]

\* The dictionaries process_qrcode returns
ConnectionErrorResult(time_now_hms) ==
    [keys |-> {"nama", "status", "waktu"}, nama |-> NamaGagalKoneksi, kode |-> <<>>,
     status |-> "CONNECTION_ERROR", waktu |-> time_now_hms, recent_attendance |-> <<>>]
InvalidFormatResult(time_now_hms) ==
    [keys |-> {"nama", "status", "waktu"}, nama |-> NamaFormatTidakValid, kode |-> <<>>,
     status |-> "INVALID_FORMAT", waktu |-> time_now_hms, recent_attendance |-> <<>>]
RegisteredResult(qr_data, df) ==
    [keys |-> {"nama", "kode", "status", "waktu", "recent_attendance"},
     nama |-> nama_lengkap(qr_data), kode |-> kode_upper(qr_data),
     status |-> "REGISTERED", waktu |-> FirstWaktu(df, kode_upper(qr_data)),
     recent_attendance |-> RecentAttendance(df)]
SuccessResult(qr_data, df, time_now_hms) ==
    [keys |-> {"nama", "kode", "status", "waktu", "recent_attendance"},
     nama |-> nama_lengkap(qr_data), kode |-> kode_upper(qr_data),
     status |-> "SUCCESS", waktu |-> time_now_hms,
     recent_attendance |-> RecentAttendance(df)]

\* The new row put before the rows of the table and not after them
AppendRow_front(df, row) == <<row>> \o df

\* new_row, and df_absensi.loc[len(df_absensi)] = new_row
new_row(qr_data, time_now_hms) ==
    Record(kode_upper(qr_data), nama_lengkap(qr_data), time_now_hms)
AppendRow(df, row) == Append(df, row)

\* process_qrcode from the return of the load to the call of the save: the
\* clock is read, the payload parsed and the code looked up.  A new code
\* goes on to the save; every other case answers at once.
process_qrcode(r) ==
    /\ req[r].pc = "process" /\ req[r].kind = "scan"
    /\ LET q == req[r]
           time_now_hms == strftime_HMS(now.sec)
           answer(res) == [req EXCEPT ![r].result = res, ![r].http = 200,
                                      ![r].pc = "done"]
       IN  req' =
             IF IsConnectionError(q.df, q.sh)
             THEN answer(ConnectionErrorResult(time_now_hms))
             ELSE IF ~HasSeparator(q.qr_data)
             THEN answer(InvalidFormatResult(time_now_hms))
             ELSE IF IsRegistered(q.df, kode_upper(q.qr_data))
             THEN answer(RegisteredResult(q.qr_data, q.df))
             ELSE LET df == AppendRow(q.df, new_row(q.qr_data, time_now_hms))
                  IN  [req EXCEPT ![r].df = df,
                                  ![r].result = SuccessResult(q.qr_data, df, time_now_hms),
                                  ![r].pc = "save"]
    /\ UNCHANGED <<GSHEET_CLIENT, spreadsheet, sheets, now, ticks, faults>>

\* A save that failed answers 500: what the save would do if it let its
\* exception through.
AfterSave_raise(q, ok, name) ==
    IF ok
    THEN [q EXCEPT !.calls = @ + 1, !.saved = "ok", !.saved_name = name,
                   !.http = 200, !.pc = "done"]
    ELSE [q EXCEPT !.calls = @ + 1, !.saved = "failed", !.saved_name = name,
                   !.result = NoResult, !.http = 500, !.pc = "done"]

\* The request after the save: "except Exception" prints the failure, and
\* process_qrcode goes on to return its result whether the write went
\* through or not.
AfterSave(q, ok, name) ==
    [q EXCEPT !.calls = @ + 1, !.saved = IF ok THEN "ok" ELSE "failed",
              !.saved_name = name, !.http = 200, !.pc = "done"]

\* save_attendance_dataframe(df_absensi, sh): the worksheet named after the
\* day of the save is opened and the DataFrame written to it; whatever goes
\* wrong is printed and dropped.  Then the result is returned.
save_attendance_dataframe(r) ==
    /\ req[r].pc = "save"
    /\ \E fail \in BOOLEAN :
         /\ Remote(fail)
         /\ LET current_worksheet_name == get_weekly_worksheet_name(now)
                ok == ~fail /\ current_worksheet_name \in DOMAIN sheets
            IN  /\ sheets' = IF ok
                             THEN [sheets EXCEPT ![current_worksheet_name] =
                                       set_with_dataframe(@, req[r].df)]
                             ELSE sheets
                /\ req' = [req EXCEPT ![r] = AfterSave(@, ok, current_worksheet_name)]
    /\ UNCHANGED <<GSHEET_CLIENT, spreadsheet, now, ticks>>

\* index() writing the table back in the order of the recent list: what a
\* GET / that saved would do to the worksheet.
render_template_save(r) ==
    /\ req[r].pc = "process" /\ req[r].kind = "index"
    /\ LET recent == IF req[r].df = <<>> THEN <<>> ELSE RecentAttendance(req[r].df)
           ok == req[r].name \in DOMAIN sheets /\ ~IsStr(req[r].sh)
       IN  /\ req' = [req EXCEPT ![r].result = [NoResult EXCEPT
                                                   !.keys = {"recent_attendance"},
                                                   !.recent_attendance = recent],
                                 ![r].http = 200, ![r].pc = "done"]
           /\ sheets' = IF ok
                        THEN [sheets EXCEPT ![req[r].name] =
                                  set_with_dataframe(@, sort_values_desc(req[r].df))]
                        ELSE sheets
    /\ UNCHANGED <<GSHEET_CLIENT, spreadsheet, now, ticks, faults>>

\* index(), after the load: the recent list is rendered
render_template(r) ==
    /\ req[r].pc = "process" /\ req[r].kind = "index"
    /\ LET recent == IF req[r].df = <<>> THEN <<>> ELSE RecentAttendance(req[r].df)
       IN  req' = [req EXCEPT ![r].result = [NoResult EXCEPT
                                                !.keys = {"recent_attendance"},
                                                !.recent_attendance = recent],
                              ![r].http = 200, ![r].pc = "done"]
    /\ UNCHANGED <<GSHEET_CLIENT, spreadsheet, sheets, now, ticks, faults>>

\* datetime.datetime.now() moves on by a second; after the last second of a
\* day the next day begins.
Tick ==
    /\ ticks + faults < MaxEvents
    /\ ticks' = ticks + 1
    /\ now' = IF now.sec + 1 = SecondsPerDay
              THEN [day |-> now.day + 1, sec |-> 0]
              ELSE [now EXCEPT !.sec = @ + 1]
    /\ UNCHANGED <<GSHEET_CLIENT, spreadsheet, sheets, req, faults>>

Next ==
    \/ \E r \in Requests, qr_data \in QrInputs : scan(r, qr_data)
    \/ \E r \in Requests : index(r)
    \/ \E r \in Requests : gc_open(r)
    \/ \E r \in Requests : sh_worksheet(r)
    \/ \E r \in Requests : add_worksheet(r)
    \/ \E r \in Requests : append_row(r)
    \/ \E r \in Requests : get_all_values(r)
    \/ \E r \in Requests : process_qrcode(r)
    \/ \E r \in Requests : save_attendance_dataframe(r)
    \/ \E r \in Requests : render_template(r)
    \/ Tick

Spec == Init /\ [][Next]_vars

\* The same server taking one request at a time: a request arrives when no
\* other is being handled.
NextSeq ==
    \/ \E r \in Requests, qr_data \in QrInputs : InFlight = {} /\ scan(r, qr_data)
    \/ \E r \in Requests : InFlight = {} /\ index(r)
    \/ \E r \in Requests : gc_open(r)
    \/ \E r \in Requests : sh_worksheet(r)
    \/ \E r \in Requests : add_worksheet(r)
    \/ \E r \in Requests : append_row(r)
    \/ \E r \in Requests : get_all_values(r)
    \/ \E r \in Requests : process_qrcode(r)
    \/ \E r \in Requests : save_attendance_dataframe(r)
    \/ \E r \in Requests : render_template(r)
    \/ Tick

SpecSeq == Init /\ [][NextSeq]_vars

\* Every payload of up to MaxLen characters out of 'b', '2', '_' and '-'
PayloadChars == {98, 50, Underscore, Dash}
Payloads == UNION {[1..n -> PayloadChars] : n \in 0..MaxLen}

\* The server handling one POST /scan, its payload any of Payloads
NextParse ==
    \/ \E qr_data \in Payloads : scan(1, qr_data)
    \/ gc_open(1)
    \/ sh_worksheet(1)
    \/ add_worksheet(1)
    \/ append_row(1)
    \/ get_all_values(1)
    \/ process_qrcode(1)
    \/ save_attendance_dataframe(1)

SpecParse == Init /\ [][NextParse]_vars

\* ------------------------------------------------------------------ claims
Done(r) == req[r].pc = "done"

\* A scan that got past the check of the payload in scan()
IsScan(r) == req[r].kind = "scan" /\ req[r].qr_data # <<>>

\* A scan with a well-formed payload that loaded a worksheet
LoadedScan(r) ==
    /\ IsScan(r) /\ Done(r) /\ req[r].http = 200
    /\ ~IsStr(req[r].sh) /\ HasSeparator(req[r].qr_data)

\* The table a request got from its load: its DataFrame without the row it
\* appended itself
Loaded(q) ==
    IF q.result.status = "SUCCESS" THEN SubSeq(q.df, 1, Len(q.df) - 1) ELSE q.df

\* The rows of a worksheet that hold a given code
RowsOf(name, kode) ==
    IF name \in DOMAIN sheets
    THEN {i \in 1..Len(sheets[name]) : i > 1 /\ sheets[name][i][1] = kode}
    ELSE {}

\* Two scans of one code, the second arriving after the first was answered,
\* both loading the same day's worksheet, the code absent from the table the
\* first one loaded
SameCodeTwice(r1, r2) ==
    /\ r1 < r2 /\ LoadedScan(r1) /\ LoadedScan(r2)
    /\ req[r1].name = req[r2].name
    /\ kode_upper(req[r1].qr_data) = kode_upper(req[r2].qr_data)
    /\ ~IsRegistered(Loaded(req[r1]), kode_upper(req[r1].qr_data))

SuccessThenRegistered(r1, r2) ==
    /\ req[r1].result.status = "SUCCESS"
    /\ req[r2].result.status = "REGISTERED"
    /\ req[r2].result.waktu = req[r1].result.waktu
    /\ Cardinality(RowsOf(req[r1].name, kode_upper(req[r1].qr_data))) = 1

WroteBack(r) == req[r].saved = "ok" /\ req[r].saved_name = req[r].name

C2_UniqueCodes ==
    \A name \in DOMAIN sheets :
        \A i, j \in 2..Len(sheets[name]) :
            sheets[name][i][1] = sheets[name][j][1] => i = j

\* A request r2 writes its table into the worksheet it loaded, after r1, which
\* had loaded the same table and scanned another code absent from it, wrote
\* its own.
SecondSave(r1, r2) ==
    /\ r1 # r2
    /\ req[r2].pc = "save" /\ req'[r2].pc = "done"
    /\ req'[r2].saved = "ok" /\ req'[r2].saved_name = req[r2].name
    /\ LoadedScan(r1) /\ WroteBack(r1) /\ req[r1].name = req[r2].name
    /\ req[r1].result.status = "SUCCESS"
    /\ Loaded(req[r1]) = Loaded(req[r2])
    /\ req[r1].result.kode # req[r2].result.kode

\* C3: when two scans of different codes load the same table and both save,
\* both answer SUCCESS and the second save puts its row where the first had
\* put its own: the worksheet is left without a row for the first code.
C3_LostUpdate ==
    [][\A r1, r2 \in Requests :
          SecondSave(r1, r2) =>
              /\ req'[r1].result.status = "SUCCESS"
              /\ req'[r2].result.status = "SUCCESS"
              /\ sheets'[req[r2].name][Len(req[r2].df) + 1] = CellsOf(req[r2].df[Len(req[r2].df)])
              /\ \A i \in 2..Len(sheets'[req[r2].name]) :
                     sheets'[req[r2].name][i][1] # req[r1].result.kode]_vars

\* Two scans of different codes were both answered SUCCESS, both wrote, and
\* the worksheet has a row for the one and none for the other.
C3_Witness ==
    \E r1, r2 \in Requests :
        /\ r1 # r2 /\ LoadedScan(r1) /\ LoadedScan(r2)
        /\ WroteBack(r1) /\ WroteBack(r2) /\ req[r1].name = req[r2].name
        /\ req[r1].result.status = "SUCCESS" /\ req[r2].result.status = "SUCCESS"
        /\ Loaded(req[r1]) = Loaded(req[r2])
        /\ req[r1].result.kode # req[r2].result.kode
        /\ RowsOf(req[r1].name, req[r1].result.kode) = {}
        /\ RowsOf(req[r1].name, req[r2].result.kode) # {}

\* C4 as stated: no request ends with an unhandled exception, that is with
\* HTTP 500, whatever remote call fails.
C4_NoUnhandledException ==
    \A r \in Requests : req[r].http # 500

\* C5 as stated: with a valid client and no spreadsheet of the fixed title,
\* a scan answers CONNECTION_ERROR and GET / an empty list, and nothing is
\* created or written.
C5_MissingStore ==
    (GSHEET_CLIENT = "gc" /\ ~spreadsheet) =>
        /\ sheets = NoSheets
        /\ \A r \in Requests :
               Done(r) /\ (IsScan(r) \/ req[r].kind = "index") =>
                   /\ req[r].http = 200
                   /\ IsScan(r) => req[r].result.status = "CONNECTION_ERROR"
                   /\ req[r].kind = "index" => req[r].result.recent_attendance = <<>>

\* C6: without credentials every scan with a payload answers
\* CONNECTION_ERROR, without 'kode' and 'recent_attendance', and no request
\* makes a remote call or changes the store.
C6_NoCredentials ==
    GSHEET_CLIENT = "None" =>
        /\ sheets = NoSheets
        /\ \A r \in Requests :
               /\ req[r].calls = 0
               /\ req[r].pc \in {"idle", "process", "done"}
               /\ IsScan(r) /\ Done(r) =>
                      /\ req[r].http = 200
                      /\ req[r].result.status = "CONNECTION_ERROR"
                      /\ req[r].result.keys = {"nama", "status", "waktu"}

\* Without credentials a scan with a well-formed payload and a scan with a
\* payload without separator have both been answered.
C6_Witness ==
    /\ GSHEET_CLIENT = "None"
    /\ \E r1, r2 \in Requests :
           /\ IsScan(r1) /\ Done(r1) /\ HasSeparator(req[r1].qr_data)
           /\ IsScan(r2) /\ Done(r2) /\ ~HasSeparator(req[r2].qr_data)

\* The rows below the header of every worksheet
DataRows(sh) == [name \in DOMAIN sh |-> DataFrameOf(sh[name])]

\* A scan whose payload has no '_' handles the table it loaded.
InvalidStep(r) ==
    /\ req[r].pc = "process" /\ req'[r] # req[r]
    /\ IsScan(r) /\ ~HasSeparator(req[r].qr_data) /\ ~IsStr(req[r].sh)

\* C7: a scan whose payload has no '_', having loaded a worksheet, answers
\* INVALID_FORMAT without 'kode' and 'recent_attendance', calls no save and
\* leaves the rows of every worksheet as they were.
C7_InvalidNoMutation ==
    [][\A r \in Requests :
          InvalidStep(r) =>
              /\ req'[r].pc = "done" /\ req'[r].http = 200
              /\ req'[r].result.status = "INVALID_FORMAT"
              /\ req'[r].result.keys = {"nama", "status", "waktu"}
              /\ req'[r].saved = "none"
              /\ req'[r].calls = req[r].calls
              /\ DataRows(sheets') = DataRows(sheets)]_vars

\* A payload without '_' was answered INVALID_FORMAT against a worksheet that
\* holds rows.
C7_Witness ==
    \E r \in Requests :
        /\ IsScan(r) /\ Done(r) /\ ~HasSeparator(req[r].qr_data)
        /\ ~IsStr(req[r].sh) /\ req[r].df # <<>>
        /\ req[r].result.status = "INVALID_FORMAT"

\* The save of a scan of a new code fails.
FailedSave(r) ==
    req[r].pc = "save" /\ req'[r].pc = "done" /\ req'[r].saved = "failed"

\* The new row of a scan that appended one, as the recent list shows it
NewRecord(q) == q.df[Len(q.df)]
Shown(rec) == [Nama |-> rec.Nama, Waktu |-> rec.Waktu]
InList(x, list) == \E i \in 1..Len(list) : list[i] = x

NotSmaller(df, rec) == {i \in 1..(Len(df) - 1) : ~StrLess(df[i].Waktu, rec.Waktu)}

GoodSave(r) ==
    req[r].pc = "save" /\ req'[r].pc = "done" /\ req'[r].saved = "ok"

\* C9 as stated: after a save that goes through, the worksheet holds the
\* header row followed by the rows of the saved table, and nothing else.
C9_FullRewrite ==
    [][\A r \in Requests :
          GoodSave(r) =>
              sheets'[req'[r].saved_name] =
                  <<columns>> \o [i \in 1..Len(req[r].df) |-> CellsOf(req[r].df[i])]]_vars

Count(list, x) == Cardinality({i \in 1..Len(list) : list[i] = x})
Shownlist(df) == [i \in 1..Len(df) |-> Shown(df[i])]

\* A list is the ten most recent records of a table: as many entries as the
\* table has rows, up to ten; 'Waktu' never increasing; every entry a row of
\* the table cut down to 'Nama' and 'Waktu'; no row left out has a 'Waktu'
\* greater than one of an entry.
TopTenOf(list, df) ==
    /\ Len(list) = IF Len(df) < 10 THEN Len(df) ELSE 10
    /\ \A i, j \in 1..Len(list) : i < j => ~StrLess(list[i].Waktu, list[j].Waktu)
    /\ \A i \in 1..Len(list) :
           /\ DOMAIN list[i] = {"Nama", "Waktu"}
           /\ Count(list, list[i]) <= Count(Shownlist(df), list[i])
    /\ \A k \in 1..Len(df) :
           Count(list, Shown(df[k])) < Count(Shownlist(df), Shown(df[k])) =>
               \A i \in 1..Len(list) : ~StrLess(list[i].Waktu, df[k].Waktu)

\* C10: the recent list of every SUCCESS or REGISTERED result and of GET / is
\* the top ten by 'Waktu' of the request's table, and on SUCCESS that table
\* ends with the newly appended record.
C10_RecentTopTen ==
    \A r \in Requests :
        /\ (IsScan(r) /\ req[r].result.status \in {"SUCCESS", "REGISTERED"}) =>
               TopTenOf(req[r].result.recent_attendance, req[r].df)
        /\ (IsScan(r) /\ req[r].result.status = "SUCCESS") =>
               /\ req[r].df # <<>>
               /\ NewRecord(req[r]) = Record(req[r].result.kode, req[r].result.nama,
                                             req[r].result.waktu)
        /\ (req[r].kind = "index" /\ Done(r) /\ req[r].http = 200) =>
               TopTenOf(req[r].result.recent_attendance, req[r].df)

\* A scan answered SUCCESS over a table of more than ten rows: the list has
\* ten entries, and a row with a smaller 'Waktu' was left out.
C10_Witness ==
    \E r \in Requests :
        /\ IsScan(r) /\ Done(r) /\ req[r].result.status = "SUCCESS"
        /\ Len(req[r].df) > 10
        /\ Len(req[r].result.recent_attendance) = 10
        /\ \E k \in 1..Len(req[r].df) :
               /\ ~InList(Shown(req[r].df[k]), req[r].result.recent_attendance)
               /\ StrLess(req[r].df[k].Waktu, req[r].result.recent_attendance[10].Waktu)

\* The kinds of status a ScanResult carries
Statuses == {"SUCCESS", "REGISTERED", "INVALID_FORMAT", "CONNECTION_ERROR"}

\* C11 as stated: a POST /scan without payload answers 400 with the error
\* body, calls nothing and saves nothing; every POST /scan with a payload
\* answers 200 with a result whose status is one of the four.
C11_StatusCodes ==
    \A r \in Requests :
        req[r].kind = "scan" /\ Done(r) =>
            IF req[r].qr_data = <<>>
            THEN /\ req[r].http = 400 /\ req[r].result.keys = {"error"}
                 /\ req[r].calls = 0 /\ req[r].saved = "none"
            ELSE /\ req[r].http = 200 /\ req[r].result.status \in Statuses

\* A step of a GET / request after its arrival
IndexStep(r) == req[r].kind = "index" /\ req'[r] # req[r]

\* C12 as stated: no step of a GET / request changes a worksheet or the set
\* of worksheets.
C12_Original ==
    [][\A r \in Requests : IndexStep(r) => sheets' = sheets]_vars

\* C12: a GET / request never saves and never changes or removes a row that
\* is in the store.  The writes it can make are those of the load when
\* today's worksheet is missing: the worksheet is created empty, and the row
\* of column names is appended to it.
C12_IndexCreatesOnly ==
    [][\A r \in Requests :
          IndexStep(r) =>
              /\ req'[r].saved = "none"
              /\ \/ sheets' = sheets
                 \/ /\ req[r].pc = "add_worksheet"
                    /\ req[r].name \notin DOMAIN sheets
                    /\ sheets' = sheets @@ (req[r].name :> <<>>)
                 \/ /\ req[r].pc = "append_row"
                    /\ req[r].name \in DOMAIN sheets
                    /\ sheets' = [sheets EXCEPT ![req[r].name] = Append(@, columns)]]_vars

\* A GET / was answered after its load created today's worksheet, and another
\* after loading a worksheet that holds rows.
C12_Witness ==
    \E r1, r2 \in Requests :
        /\ req[r1].kind = "index" /\ Done(r1) /\ req[r1].http = 200
        /\ req[r1].calls = 4 /\ req[r1].name \in DOMAIN sheets
        /\ req[r2].kind = "index" /\ Done(r2) /\ req[r2].http = 200
        /\ req[r2].df # <<>> /\ req[r2].result.recent_attendance # <<>>

\* kode and nama are what a payload with a '_' stands for: the characters
\* before its first '_' in capitals, and the characters after it, each '-'
\* turned into a space, in capitals.
IsParseOf(qr_data, kode, nama) ==
    \E i \in 1..Len(qr_data) :
        /\ qr_data[i] = Underscore
        /\ \A j \in 1..(i-1) : qr_data[j] # Underscore
        /\ Len(kode) = i - 1
        /\ \A j \in 1..(i-1) : kode[j] = UpperChar(qr_data[j])
        /\ Len(nama) = Len(qr_data) - i
        /\ \A j \in 1..(Len(qr_data) - i) :
               nama[j] = IF qr_data[i + j] = Dash THEN Space
                         ELSE UpperChar(qr_data[i + j])

\* C13: every payload that contains a '_', handled after a load that gave a
\* table, is parsed: the answer is SUCCESS or REGISTERED and carries the
\* code and the name the payload stands for, split at the first '_' only,
\* whatever the length and the characters of the two parts.
C13_Parsing ==
    \A r \in Requests :
        LoadedScan(r) =>
            /\ req[r].result.status \in {"SUCCESS", "REGISTERED"}
            /\ IsParseOf(req[r].qr_data, req[r].result.kode, req[r].result.nama)

\* A payload with an empty code, and a name with a '-' and a second '_' in
\* it, was answered SUCCESS.
C13_Witness ==
    \E r \in Requests :
        /\ LoadedScan(r) /\ req[r].result.status = "SUCCESS"
        /\ req[r].result.kode = <<>>
        /\ Contains(req[r].result.nama, Underscore)
        /\ Contains(req[r].result.nama, Space)
        /\ ~Contains(req[r].result.nama, Dash)
        /\ Contains(req[r].qr_data, Dash)

\* A scan with a well-formed payload finds its code absent from the table it
\* loaded.
NewCodeStep(r) ==
    /\ req[r].pc = "process" /\ req'[r] # req[r]
    /\ IsScan(r) /\ ~IsStr(req[r].sh) /\ HasSeparator(req[r].qr_data)
    /\ kode_upper(req[r].qr_data) \notin KodeValues(req[r].df)

\* C14: with one request handled at a time, a scan of a code that is absent
\* from the loaded table gets SUCCESS with the time of the clock, and when
\* its write goes through, the worksheet it loaded holds the header, the rows
\* it held before, unchanged and in their order, and after them one new row
\* of the code, the name and the time returned; no other worksheet changes.
C14_AppendsOneRow ==
    [][\A r \in Requests :
          /\ NewCodeStep(r) =>
                 /\ req'[r].pc = "save"
                 /\ req'[r].result.status = "SUCCESS"
                 /\ req'[r].result.waktu = strftime_HMS(now.sec)
                 /\ IsParseOf(req[r].qr_data, req'[r].result.kode, req'[r].result.nama)
          /\ GoodSave(r) =>
                 LET name == req[r].name
                     row == Record(req[r].result.kode, req[r].result.nama,
                                   req[r].result.waktu)
                 IN  /\ req'[r].http = 200
                     /\ req'[r].result = req[r].result
                     /\ req'[r].saved_name = name
                     /\ DOMAIN sheets' = DOMAIN sheets
                     /\ \A n \in DOMAIN sheets : n # name => sheets'[n] = sheets[n]
                     /\ sheets'[name][1] = columns
                     /\ DataFrameOf(sheets'[name]) =
                            DataFrameOf(sheets[name]) \o <<row>>]_vars

\* A scan of a new code was answered SUCCESS after a write that went through,
\* and the worksheet holds the earlier rows and the new one after them.
C14_Witness ==
    \E r \in Requests :
        /\ LoadedScan(r) /\ req[r].result.status = "SUCCESS" /\ req[r].saved = "ok"
        /\ Len(req[r].df) > 1
        /\ req[r].name \in DOMAIN sheets
        /\ DataFrameOf(sheets[req[r].name]) = req[r].df
        /\ NewRecord(req[r]).Kode = req[r].result.kode

\* A scan with a well-formed payload finds its code in the table it loaded.
RegisteredStep(r) ==
    /\ req[r].pc = "process" /\ req'[r] # req[r]
    /\ IsScan(r) /\ ~IsStr(req[r].sh) /\ HasSeparator(req[r].qr_data)
    /\ kode_upper(req[r].qr_data) \in KodeValues(req[r].df)

\* A request makes one of the calls of the load of a worksheet that exists.
ReadStep(r) ==
    /\ req[r].pc \in {"open", "worksheet", "get_all_values"} /\ req'[r] # req[r]

\* C15: a scan whose code is in the loaded table answers REGISTERED with the
\* 'Waktu' of the first row of that code in the table; it calls no save, and
\* neither that step nor the three calls of its load change a worksheet, so
\* the stored name and time of the code stay as they were.
C15_RegisteredUntouched ==
    [][\A r \in Requests :
          /\ ReadStep(r) => sheets' = sheets
          /\ RegisteredStep(r) =>
                 /\ req'[r].pc = "done" /\ req'[r].http = 200
                 /\ req'[r].result.status = "REGISTERED"
                 /\ req'[r].saved = "none"
                 /\ req[r].calls = 3 /\ req'[r].calls = 3
                 /\ req'[r].df = req[r].df
                 /\ sheets' = sheets
                 /\ \E i \in 1..Len(req[r].df) :
                        /\ req[r].df[i].Kode = req'[r].result.kode
                        /\ \A j \in 1..(i-1) : req[r].df[j].Kode # req'[r].result.kode
                        /\ req'[r].result.waktu = req[r].df[i].Waktu]_vars

\* A scan was answered REGISTERED with a time that is not the clock's, its
\* name another than the one stored, and the stored row is as it was loaded.
C15_Witness ==
    \E r \in Requests :
        /\ LoadedScan(r) /\ req[r].result.status = "REGISTERED"
        /\ req[r].result.waktu # strftime_HMS(now.sec)
        /\ \E i \in RowsOf(req[r].name, req[r].result.kode) :
               /\ sheets[req[r].name][i][2] # req[r].result.nama
               /\ sheets[req[r].name][i][3] = req[r].result.waktu
               /\ RecordOf(sheets[req[r].name][i]) = req[r].df[i - 1]

\* A request that found today's worksheet missing makes the next call of the
\* creation, and the call does not fail for a reason of the network.
CreationStep(r) ==
    /\ req[r].pc \in {"add_worksheet", "append_row"} /\ req'[r] # req[r]
    /\ faults' = faults

\* C16 as stated: no worksheet is ever removed, and a load that finds today's
\* worksheet missing, alone or next to another first load of the day, goes
\* through: it leaves the worksheet holding the header row only and returns
\* the empty table without an error.
C16_LazyCreation ==
    [][/\ DOMAIN sheets \subseteq DOMAIN sheets'
       /\ \A r \in Requests :
              CreationStep(r) =>
                  /\ req'[r].http # 500
                  /\ req[r].pc = "append_row" =>
                         /\ req'[r].pc = "process"
                         /\ req'[r].df = <<>> /\ ~IsStr(req'[r].sh)
                         /\ sheets'[req[r].name] = <<columns>>]_vars

\* C17 as stated: the worksheet a scan writes its table to is the one it
\* loaded the table from.
C17_WritesBackWhereLoaded ==
    [][\A r \in Requests : GoodSave(r) => req'[r].saved_name = req[r].name]_vars

\* C18 as stated: with no remote call failing, of the scans of one code that
\* loaded one day's worksheet and wrote to it, at most one is answered
\* SUCCESS.
C18_OneSuccessPerCode ==
    faults = 0 =>
        \A r1, r2 \in Requests :
            /\ r1 # r2 /\ LoadedScan(r1) /\ LoadedScan(r2)
            /\ req[r1].name = req[r2].name
            /\ req[r1].result.kode = req[r2].result.kode
            /\ WroteBack(r1) /\ WroteBack(r2)
            => ~(req[r1].result.status = "SUCCESS" /\ req[r2].result.status = "SUCCESS")

====
